---- MODULE Spec2Model ----
(***************************************************************************)
(* The order API of app/sync_main.py and app/async_main.py over the        *)
(* relational schema of app/models.py.                                     *)
(*                                                                         *)
(* The store is a PostgreSQL database (app/database.py): committed rows    *)
(* per table plus one id sequence per table.  Every request owns one       *)
(* session; rows a session has flushed live in its transaction (tx) and    *)
(* become part of the committed rows only at commit.  Every statement a    *)
(* handler sends to the store is a point where other requests interleave.  *)
(*                                                                         *)
(* Prices are floats in the source.  They are kept here as integers in     *)
(* thousandths, restricted to multiples of 0.125, which binary floats      *)
(* hold exactly, so that sums and round(total, 2) are exact.               *)
(***************************************************************************)
EXTENDS Integers, Sequences, FiniteSets, TLC

\* ------------------------------------------------------------------ bounds
\* requests issued in one run of Spec (all may overlap)
MaxReq == 2
\* line items and tag ids per order-create payload, for overlapping requests
ConcLines == 1
ConcTagIds == 2
\* line items and tag ids per order-create payload, for requests in sequence
MaxLines == 2
MaxTagIds == 2
\* store faults (lost connection and the like) injected in one run
MaxFaults == 1
\* requests issued one after the other in one run of SpecEq
MaxEqReq == 2

\* ------------------------------------------------------------------ schema
\* Optional[int] = Field(default=None, primary_key=True): the id before the
\* store has generated it
NULL == 0

Tables == {"contact", "product", "tag", "order", "order_line", "order_tag_rel"}

\* the foreign keys the table models declare: <<column, referenced table>>
ForeignKeys(t) ==
    CASE t = "order_tag_rel" -> {<<"order_id", "order">>, <<"tag_id", "tag">>}
      [] t = "order_line"    -> {<<"order_id", "order">>, <<"product_id", "product">>}
      [] OTHER               -> {}

\* the columns a table model serialises (its declared fields; a Relationship
\* is not a field)
Columns(t) ==
    CASE t = "contact"       -> {"id", "name", "email"}
      [] t = "product"       -> {"id", "name"}
      [] t = "tag"           -> {"id", "name"}
      [] t = "order"         -> {"id", "name", "contact_id"}
      [] t = "order_line"    -> {"id", "order_id", "product_id", "quantity", "price"}
      [] t = "order_tag_rel" -> {"id", "order_id", "tag_id"}

EmptyRows == [t \in Tables |-> {}]

\* the store right after init_db(): the tables exist and are empty
EmptyStore == [rows |-> EmptyRows, seq |-> [t \in Tables |-> 1]]

\* ------------------------------------------------------------------ session
\* the two routers differ in driver, session factory and the order read
Modes == {"sync", "async"}

Driver(mode) == IF mode = "sync" THEN "psycopg2" ELSE "asyncpg"

\* Session(engine) keeps the default; the async factory passes False
expire_on_commit(mode) == mode = "sync"

NoObj == [t |-> "", row |-> [id |-> NULL], expired |-> FALSE]
NoResp == [status |-> 0, body |-> {}]
NoInput == [none |-> TRUE]

\* a request before it is issued
Idle ==
    [pc |-> "idle", kind |-> "", mode |-> "", input |-> NoInput,
     open |-> FALSE, nsess |-> 0,
     new |-> <<>>, tx |-> EmptyRows, obj |-> NoObj,
     i |-> 0, found |-> {}, sel |-> {}, lines |-> {}, tags |-> {}, todo |-> {},
     resp |-> NoResp, failedAt |-> "", after |-> {}]

\* get_session / get_async_session up to the yield: one session is opened
get_session(s) == [s EXCEPT !.open = TRUE, !.nsess = @ + 1]

\* rows a statement of session s sees: committed rows and its own writes
Visible(store, s, t) == store.rows[t] \cup s.tx[t]

\* session.add(obj): the object is pending until the next flush
add(s, t, row, main) ==
    [s EXCEPT !.new = Append(@, [t |-> t, row |-> row, main |-> main])]

fk_ok(store, s, t, row) ==
    \A fk \in ForeignKeys(t) :
        \E p \in Visible(store, s, fk[2]) : p.id = row[fk[1]]

\* INSERT as a store in autocommit would do it: the row is committed at once
INSERT_autocommit(store, s, p) ==
    LET id   == store.seq[p.t]
        full == [p.row EXCEPT !.id = id]
    IN  IF fk_ok(store, s, p.t, full)
        THEN [store |-> [store EXCEPT !.seq[p.t] = @ + 1,
                                      !.rows[p.t] = @ \cup {full}],
              s |-> [s EXCEPT !.obj = IF p.main
                                      THEN [t |-> p.t, row |-> full, expired |-> FALSE]
                                      ELSE @],
              err |-> ""]
        ELSE [store |-> [store EXCEPT !.seq[p.t] = @ + 1], s |-> s,
              err |-> "IntegrityError"]

\* INSERT with a sequence that hands out its value and does not advance
INSERT_same_id(store, s, p) ==
    LET full == [p.row EXCEPT !.id = store.seq[p.t]]
    IN  IF fk_ok(store, s, p.t, full)
        THEN [store |-> store,
              s |-> [s EXCEPT !.tx[p.t] = @ \cup {full},
                              !.obj = IF p.main
                                      THEN [t |-> p.t, row |-> full, expired |-> FALSE]
                                      ELSE @],
              err |-> ""]
        ELSE [store |-> store, s |-> s, err |-> "IntegrityError"]

\* INSERT of one row: the sequence hands out the id (and never takes it
\* back), then the foreign keys are checked
INSERT(store, s, p) ==
    LET id   == store.seq[p.t]
        st   == [store EXCEPT !.seq[p.t] = @ + 1]
        full == [p.row EXCEPT !.id = id]
    IN  IF fk_ok(store, s, p.t, full)
        THEN [store |-> st,
              s |-> [s EXCEPT !.tx[p.t] = @ \cup {full},
                              !.obj = IF p.main
                                      THEN [t |-> p.t, row |-> full, expired |-> FALSE]
                                      ELSE @],
              err |-> ""]
        ELSE [store |-> st, s |-> s, err |-> "IntegrityError"]

\* session.flush(): the pending objects are inserted in the order they were
\* added; the first failure raises (r is the result of the last INSERT)
RECURSIVE flush(_, _), flush_rest(_)
flush(store, s) ==
    IF s.new = <<>>
    THEN [store |-> store, s |-> s, err |-> ""]
    ELSE flush_rest(INSERT(store, s, Head(s.new)))

flush_rest(r) ==
    IF r.err # ""
    THEN [store |-> r.store, s |-> [r.s EXCEPT !.new = <<>>], err |-> r.err]
    ELSE flush(r.store, [r.s EXCEPT !.new = Tail(@)])

\* COMMIT that is not atomic: when it fails, the lines and links written so
\* far stay committed and the order row does not
COMMIT_torn(f, fault) ==
    IF f.err # "" THEN f
    ELSE IF fault = "fail"
    THEN [store |-> [f.store EXCEPT
                        !.rows = [t \in Tables |->
                                    IF t \in {"order_line", "order_tag_rel"}
                                    THEN @[t] \cup f.s.tx[t] ELSE @[t]]],
          s |-> f.s, err |-> "OperationalError"]
    ELSE [store |-> [f.store EXCEPT
                        !.rows = [t \in Tables |-> @[t] \cup f.s.tx[t]]],
          s |-> [f.s EXCEPT !.tx = EmptyRows,
                            !.obj.expired = expire_on_commit(f.s.mode)],
          err |-> ""]

\* COMMIT after the flush f: the transaction's rows become committed rows;
\* fault = "fail" is the COMMIT itself failing
COMMIT(f, fault) ==
    IF f.err # "" THEN f
    ELSE IF fault = "fail"
    THEN [store |-> f.store, s |-> f.s, err |-> "OperationalError"]
    ELSE [store |-> [f.store EXCEPT
                        !.rows = [t \in Tables |-> @[t] \cup f.s.tx[t]]],
          s |-> [f.s EXCEPT !.tx = EmptyRows,
                            !.obj.expired = expire_on_commit(f.s.mode)],
          err |-> ""]

\* session.commit(): flush, then COMMIT
commit(store, s, fault) == COMMIT(flush(store, s), fault)

\* session.refresh(obj): the object's columns are read back by primary key
refresh(store, s, fault) ==
    LET hit == {r \in Visible(store, s, s.obj.t) : r.id = s.obj.row.id}
    IN  IF fault = "fail_refresh" THEN [s |-> s, err |-> "OperationalError"]
        ELSE IF hit = {} THEN [s |-> s, err |-> "InvalidRequestError"]
        ELSE [s |-> [s EXCEPT !.obj.row = CHOOSE r \in hit : TRUE,
                              !.obj.expired = FALSE],
              err |-> ""]

\* a close that commits what the session has written
close_commit(store, s) ==
    [store |-> [store EXCEPT !.rows = [t \in Tables |-> @[t] \cup s.tx[t]]],
     s |-> [s EXCEPT !.tx = EmptyRows, !.new = <<>>, !.open = FALSE,
                     !.pc = "finished"]]

\* a session closed only after a handler that returned (a yield with no
\* with-block around it)
close_on_return(store, s) ==
    [store |-> store,
     s |-> IF s.pc = "raised"
           THEN [s EXCEPT !.pc = "finished"]
           ELSE [s EXCEPT !.tx = EmptyRows, !.new = <<>>, !.open = FALSE,
                          !.pc = "finished"]]

\* the with-block of get_session ends: the session is closed, and what it
\* had not committed is rolled back
close(store, s) ==
    [store |-> store,
     s |-> [s EXCEPT !.tx = EmptyRows, !.new = <<>>, !.open = FALSE,
                     !.pc = "finished"]]

\* session.get(TagDB, id): the row with that primary key, or None
None == [id |-> NULL]

get(store, s, t, id) ==
    LET hit == {r \in Visible(store, s, t) : r.id = id}
    IN  IF hit = {} THEN None ELSE CHOOSE r \in hit : TRUE

\* ------------------------------------------------------------------ responses
\* what FastAPI sends for a returned table object: its declared fields
model_dump(obj) == [c \in Columns(obj.t) |-> obj.row[c]]

\* return value -> 200 with its serialisation
ok(s, body) ==
    [s EXCEPT !.pc = "returned", !.resp = [status |-> 200, body |-> body]]

\* except Exception as e: raise HTTPException(status_code=500, detail=str(e));
\* str(e) names the driver's exception
HTTPException(s, e, at) ==
    [s EXCEPT !.pc = "raised",
              !.resp = [status |-> 500, body |-> [detail |-> <<Driver(s.mode), e>>]],
              !.failedAt = at]

\* the request as the router hands it to the handler: kind, payload, and the
\* session the dependency yields
begin(kind, mode, input) ==
    get_session([Idle EXCEPT !.pc = "handler", !.kind = kind, !.mode = mode,
                             !.input = input])

\* ------------------------------------------------------------------ contact, product, tag
\* return obj, after the refresh r
return_obj(store, r) ==
    IF r.err # ""
    THEN [store |-> store, s |-> HTTPException(r.s, r.err, "refresh")]
    ELSE [store |-> store, s |-> ok(r.s, model_dump(r.s.obj))]

\* session.refresh(obj); return obj, after the commit c
refresh_return(c, fault) ==
    IF c.err # ""
    THEN [store |-> c.store, s |-> HTTPException(c.s, c.err, "commit")]
    ELSE return_obj(c.store, refresh(c.store, c.s, fault))

\* the body shared by create_contact, create_product and create_order_tag:
\* XDB(**x.model_dump()); add; commit; refresh; return
create_row(store, s, t, fault) ==
    refresh_return(commit(store, add(s, t, [id |-> NULL] @@ s.input, TRUE), fault),
                   fault)

\* the body shared by get_contacts, get_products and get_tags:
\* session.exec(select(XDB)).all()
select_all(store, s, t, fault) ==
    IF fault = "fail"
    THEN [store |-> store, s |-> HTTPException(s, "OperationalError", "select")]
    ELSE [store |-> store,
          s |-> ok(s, {model_dump([t |-> t, row |-> r, expired |-> FALSE]) :
                          r \in Visible(store, s, t)})]

create_contact(store, s, fault) == create_row(store, s, "contact", fault)
get_contacts(store, s, fault) == select_all(store, s, "contact", fault)
create_product(store, s, fault) == create_row(store, s, "product", fault)
get_products(store, s, fault) == select_all(store, s, "product", fault)
create_order_tag(store, s, fault) == create_row(store, s, "tag", fault)
get_tags(store, s, fault) == select_all(store, s, "tag", fault)

\* ------------------------------------------------------------------ create_order
\* OrderLineDB(order_id=order_db.id, product_id=..., quantity=..., price=...)
OrderLineDB(order_id, line) ==
    [id |-> NULL, order_id |-> order_id, product_id |-> line.product_id,
     quantity |-> line.quantity, price |-> line.price]

\* OrderTagRelDB(order_id=order_db.id, tag_id=tag_id)
OrderTagRelDB(order_id, tag_id) ==
    [id |-> NULL, order_id |-> order_id, tag_id |-> tag_id]

\* for line in order.order_lines: session.add(OrderLineDB(...))
RECURSIVE add_lines(_, _, _)
add_lines(s, order_id, lines) ==
    IF lines = <<>> THEN s
    ELSE add_lines(add(s, "order_line", OrderLineDB(order_id, Head(lines)), FALSE),
                   order_id, Tail(lines))

\* OrderDB(**order.model_dump(exclude={"order_lines"})): name and contact_id
\* are columns; tag_ids is no attribute of the table model
OrderDB(input) ==
    [id |-> NULL, name |-> input.name, contact_id |-> input.contact_id]

\* the lines are added once the flush f has given the order its id
create_order_lines(f) ==
    IF f.err # ""
    THEN [store |-> f.store, s |-> HTTPException(f.s, f.err, "flush")]
    ELSE [store |-> f.store,
          s |-> [add_lines(f.s, f.s.obj.row.id, f.s.input.order_lines)
                    EXCEPT !.pc = "tags", !.i = 1]]

\* create_order up to the tag loop: the order row is flushed to learn its
\* id, then the lines are added to the session
create_order_flush(store, s, fault) ==
    IF fault = "fail"
    THEN [store |-> store, s |-> HTTPException(s, "OperationalError", "flush")]
    ELSE create_order_lines(flush(store, add(s, "order", OrderDB(s.input), TRUE)))

\* the link added without the "if tag" test
create_order_link_always(s, tag_id, tag) ==
    [add(s, "order_tag_rel", OrderTagRelDB(s.obj.row.id, tag_id), FALSE)
        EXCEPT !.i = @ + 1]

\* if tag: session.add(OrderTagRelDB(...)), and on to the next tag id
create_order_link(s, tag_id, tag) ==
    [(IF tag # None
      THEN add(s, "order_tag_rel", OrderTagRelDB(s.obj.row.id, tag_id), FALSE)
      ELSE s)
        EXCEPT !.i = @ + 1]

\* the lookup after the autoflush f
create_order_get(f, tag_id, fault) ==
    IF f.err # ""
    THEN [store |-> f.store, s |-> HTTPException(f.s, f.err, "autoflush")]
    ELSE IF fault = "fail"
    THEN [store |-> f.store, s |-> HTTPException(f.s, "OperationalError", "get")]
    ELSE [store |-> f.store,
          s |-> create_order_link(f.s, tag_id, get(f.store, f.s, "tag", tag_id))]

\* one turn of the tag loop: session.get(TagDB, tag_id) autoflushes what is
\* pending, then looks the tag up; a link is added only for a tag found
create_order_tag_lookup(store, s, fault) ==
    create_order_get(flush(store, s), s.input.tag_ids[s.i], fault)

\* session.commit(); session.refresh(order_db); return order_db
create_order_commit(store, s, fault) ==
    refresh_return(commit(store, s, fault), fault)

\* ------------------------------------------------------------------ OrderRead
\* a collection whose order the store does not define, with multiplicities:
\* element -> number of occurrences
RECURSIVE BagSum(_, _)
BagSum(bag, dom) ==
    IF dom = {} THEN 0
    ELSE LET x == CHOOSE y \in dom : TRUE
         IN  bag[x] * (x.price * x.quantity) + BagSum(bag, dom \ {x})

OrderLineRead(l) ==
    [product_id |-> l.product_id, quantity |-> l.quantity, price |-> l.price]

Tag(row) == [name |-> row.name]

\* the total cut to two decimals instead of rounded
round2_down(x) == (x \div 10) * 10

\* round(x, 2) of a float that is a multiple of 0.125, in thousandths: to
\* the nearest hundredth, an exact tie to the even one
round2(x) ==
    LET q == x \div 10
        r == x % 10
    IN  IF r > 5 \/ (r = 5 /\ q % 2 = 1) THEN (q + 1) * 10 ELSE q * 10

\* OrderRead.amount_total: round(sum(line.price * line.quantity), 2)
amount_total(order_lines) == round2(BagSum(order_lines, DOMAIN order_lines))

\* response_model=List[OrderRead]: an order with the lines and tags loaded
\* for it, and the computed total
OrderRead(o, lines, tags) ==
    LET mine == {l \in lines : l.order_id = o.id}
        tg   == {p[2] : p \in {q \in tags : q[1] = o.id}}
        ol   == [x \in {OrderLineRead(l) : l \in mine} |->
                    Cardinality({l \in mine : OrderLineRead(l) = x})]
    IN  [id |-> o.id, name |-> o.name, contact_id |-> o.contact_id,
         order_lines |-> ol,
         tags |-> [x \in {Tag(g) : g \in tg} |->
                      Cardinality({g \in tg : Tag(g) = x})],
         amount_total |-> amount_total(ol)]

orders_response(s) == {OrderRead(o, s.lines, s.tags) : o \in s.sel}

\* ------------------------------------------------------------------ get_orders
\* the lines of the given orders, as one SELECT sees them
lines_of(store, s, ids) ==
    {l \in Visible(store, s, "order_line") : l.order_id \in ids}

\* the tags of the given orders through order_tag_rel, as <<order id, tag>>;
\* a tag linked twice to an order is one entity of its collection
tags_of(store, s, ids) ==
    UNION {{<<k.order_id, g>> :
               g \in {x \in Visible(store, s, "tag") : x.id = k.tag_id}} :
           k \in {x \in Visible(store, s, "order_tag_rel") : x.order_id \in ids}}

Min(S) == CHOOSE x \in S : \A y \in S : x <= y

raise_or(store, s, fault, at, next) ==
    IF fault = "fail"
    THEN [store |-> store, s |-> HTTPException(s, "OperationalError", at)]
    ELSE [store |-> store, s |-> next]

\* select(OrderDB): the order rows.  sync_main loads the relationships of
\* each order afterwards, on access; async_main loads them with two
\* selectin queries over all the orders selected
get_orders_select(store, s, fault) ==
    LET sel == Visible(store, s, "order")
        s1  == [s EXCEPT !.sel = sel, !.todo = {o.id : o \in sel}]
    IN  raise_or(store, s, fault, "select",
                 IF sel = {} THEN ok(s1, orders_response(s1))
                 ELSE [s1 EXCEPT !.pc = IF s.mode = "sync" THEN "lazy_lines"
                                        ELSE "selectin_lines"])

\* sync: order.order_lines of the next order
get_orders_lazy_lines(store, s, fault) ==
    raise_or(store, s, fault, "lazy_lines",
             [s EXCEPT !.lines = @ \cup lines_of(store, s, {Min(s.todo)}),
                       !.pc = "lazy_tags"])

\* sync: order.tags of the same order; after the last order, return orders
get_orders_lazy_tags(store, s, fault) ==
    LET s1 == [s EXCEPT !.tags = @ \cup tags_of(store, s, {Min(s.todo)}),
                        !.todo = @ \ {Min(s.todo)}]
    IN  raise_or(store, s, fault, "lazy_tags",
                 IF s1.todo = {} THEN ok(s1, orders_response(s1))
                 ELSE [s1 EXCEPT !.pc = "lazy_lines"])

\* async without selectinload(OrderDB.order_lines): the access to
\* order.order_lines has to load lazily, which an AsyncSession refuses
get_orders_selectin_lines_lazy(store, s, fault) ==
    [store |-> store, s |-> HTTPException(s, "MissingGreenlet", "selectin_lines")]

\* async: selectinload(OrderDB.order_lines)
get_orders_selectin_lines(store, s, fault) ==
    raise_or(store, s, fault, "selectin_lines",
             [s EXCEPT !.lines = lines_of(store, s, s.todo),
                       !.pc = "selectin_tags"])

\* async: selectinload(OrderDB.tags); return orders
get_orders_selectin_tags(store, s, fault) ==
    LET s1 == [s EXCEPT !.tags = tags_of(store, s, s.todo), !.todo = {}]
    IN  raise_or(store, s, fault, "selectin_tags", ok(s1, orders_response(s1)))

\* ------------------------------------------------------------------ payloads
Names == {"A", "B"}

ContactInputs == {[name |-> n, email |-> "a@x"] : n \in Names}
NameInputs == {[name |-> n] : n \in Names}

\* ids a payload may name: those of the rows the runs start with, and the
\* next id of the table, which no row has until a create request of the run
\* is given it (contact 2, product 3, tag 2)
\* line items: 2 x 10.0, 1 x 5.5, 3 x 0.125, and one of product 3
Items ==
    {[product_id |-> 1, quantity |-> 2, price |-> 10000],
     [product_id |-> 2, quantity |-> 1, price |-> 5500],
     [product_id |-> 2, quantity |-> 3, price |-> 125],
     [product_id |-> 3, quantity |-> 1, price |-> 125]}

SeqsUpTo(S, n) == UNION {[1..k -> S] : k \in 0..n}

OrderInputs(nlines, ntags) ==
    {[name |-> "A", contact_id |-> c, order_lines |-> ls, tag_ids |-> ts] :
        c \in {1, 2},
        ls \in SeqsUpTo(Items, nlines),
        ts \in SeqsUpTo({1, 2}, ntags)}

Kinds ==
    {"create_contact", "get_contacts", "create_product", "get_products",
     "create_tag", "get_tags", "create_order", "get_orders"}

\* the payloads of a route
InputsOf(kind, nlines, ntags) ==
    CASE kind = "create_contact" -> ContactInputs
      [] kind \in {"create_product", "create_tag"} -> NameInputs
      [] kind = "create_order" -> OrderInputs(nlines, ntags)
      [] OTHER -> {NoInput}

\* ------------------------------------------------------------------ running a handler
\* the step a request in state s takes next, without store faults
Step(store, s) ==
    CASE s.pc \in {"returned", "raised"} -> close(store, s)
      [] s.kind = "create_contact" -> create_contact(store, s, "ok")
      [] s.kind = "get_contacts"   -> get_contacts(store, s, "ok")
      [] s.kind = "create_product" -> create_product(store, s, "ok")
      [] s.kind = "get_products"   -> get_products(store, s, "ok")
      [] s.kind = "create_tag"     -> create_order_tag(store, s, "ok")
      [] s.kind = "get_tags"       -> get_tags(store, s, "ok")
      [] s.kind = "create_order" /\ s.pc = "handler" -> create_order_flush(store, s, "ok")
      [] s.kind = "create_order" /\ s.pc = "tags" /\ s.i <= Len(s.input.tag_ids)
            -> create_order_tag_lookup(store, s, "ok")
      [] s.kind = "create_order" /\ s.pc = "tags" -> create_order_commit(store, s, "ok")
      [] s.kind = "get_orders" /\ s.pc = "handler" -> get_orders_select(store, s, "ok")
      [] s.pc = "lazy_lines"     -> get_orders_lazy_lines(store, s, "ok")
      [] s.pc = "lazy_tags"      -> get_orders_lazy_tags(store, s, "ok")
      [] s.pc = "selectin_lines" -> get_orders_selectin_lines(store, s, "ok")
      [] s.pc = "selectin_tags"  -> get_orders_selectin_tags(store, s, "ok")

\* a request served from its first statement to the release of its session,
\* with no other request in between
RECURSIVE Run(_)
Run(n) == IF n.s.pc = "finished" THEN n ELSE Run(Step(n.store, n.s))

Serve(store, kind, mode, input) ==
    Run([store |-> store, s |-> begin(kind, mode, input)])

\* requests served one after the other
RECURSIVE ServeAll(_, _)
ServeAll(store, rs) ==
    IF rs = <<>> THEN store
    ELSE ServeAll(Serve(store, Head(rs).kind, Head(rs).mode, Head(rs).input).store,
                  Tail(rs))

\* the payload of the order the runs start with
SeedOrder ==
    [name |-> "A", contact_id |-> 1,
     order_lines |-> <<[product_id |-> 1, quantity |-> 2, price |-> 10000]>>,
     tag_ids |-> <<1>>]

\* the store the runs start from: one contact, two products, one tag and
\* one order, created through the create handlers on the empty store
SeedStore ==
    ServeAll(EmptyStore,
             <<[kind |-> "create_contact", mode |-> "sync",
                input |-> [name |-> "A", email |-> "a@x"]],
               [kind |-> "create_product", mode |-> "async", input |-> [name |-> "A"]],
               [kind |-> "create_product", mode |-> "sync", input |-> [name |-> "B"]],
               [kind |-> "create_tag", mode |-> "async", input |-> [name |-> "A"]],
               [kind |-> "create_order", mode |-> "sync", input |-> SeedOrder]>>)

\* ------------------------------------------------------------------ state
VARIABLES
    store,      \* the database: committed rows and id sequences
    req,        \* the requests of a run, by number: each one's session and progress
    faults,     \* store faults injected so far
    eqS,        \* SpecEq: the store served by the /sync routes
    eqA,        \* SpecEq: the store served by the /async routes
    eqLast,     \* SpecEq: the last request and the two responses to it
    eqN         \* SpecEq: requests served so far

vars == <<store, req, faults, eqS, eqA, eqLast, eqN>>
eqVars == <<eqS, eqA, eqLast, eqN>>

Reqs == 1..MaxReq

NoLast == [kind |-> "", input |-> NoInput, sync |-> NoResp, async |-> NoResp]

Init ==
    /\ store = SeedStore
    /\ req = [r \in Reqs |-> Idle]
    /\ faults = 0
    /\ eqS = store
    /\ eqA = store
    /\ eqLast = NoLast
    /\ eqN = 0

\* what may go wrong with the statement about to be sent
Faults == {"ok"} \cup (IF faults < MaxFaults THEN {"fail"} ELSE {})
CommitFaults == Faults \cup (IF faults < MaxFaults THEN {"fail_refresh"} ELSE {})

Done(s) == s.pc \in {"returned", "raised", "finished"}

\* requests are numbered in the order their first statement reaches the store
CanIssue(r) ==
    /\ req[r].pc = "idle"
    /\ \A q \in Reqs : q < r => req[q].pc # "idle"

\* the first step of request r: n is the handler's result; the requests
\* already answered at that moment are remembered
Issue(r, n, fault) ==
    /\ store' = n.store
    /\ req' = [req EXCEPT ![r] = [n.s EXCEPT !.after = {q \in Reqs : Done(req[q])}]]
    /\ faults' = IF fault = "ok" THEN faults ELSE faults + 1
    /\ UNCHANGED eqVars

\* a later step of request r
Advance(r, n, fault) ==
    /\ store' = n.store
    /\ req' = [req EXCEPT ![r] = n.s]
    /\ faults' = IF fault = "ok" THEN faults ELSE faults + 1
    /\ UNCHANGED eqVars

\* ------------------------------------------------------------------ actions
PostContact(r) ==
    /\ CanIssue(r)
    /\ \E mode \in Modes, input \in ContactInputs, fault \in CommitFaults :
          Issue(r, create_contact(store, begin("create_contact", mode, input), fault), fault)

GetContact(r) ==
    /\ CanIssue(r)
    /\ \E mode \in Modes, fault \in Faults :
          Issue(r, get_contacts(store, begin("get_contacts", mode, NoInput), fault), fault)

PostProduct(r) ==
    /\ CanIssue(r)
    /\ \E mode \in Modes, input \in NameInputs, fault \in CommitFaults :
          Issue(r, create_product(store, begin("create_product", mode, input), fault), fault)

GetProduct(r) ==
    /\ CanIssue(r)
    /\ \E mode \in Modes, fault \in Faults :
          Issue(r, get_products(store, begin("get_products", mode, NoInput), fault), fault)

PostTag(r) ==
    /\ CanIssue(r)
    /\ \E mode \in Modes, input \in NameInputs, fault \in CommitFaults :
          Issue(r, create_order_tag(store, begin("create_tag", mode, input), fault), fault)

GetTag(r) ==
    /\ CanIssue(r)
    /\ \E mode \in Modes, fault \in Faults :
          Issue(r, get_tags(store, begin("get_tags", mode, NoInput), fault), fault)

PostOrder(r) ==
    /\ CanIssue(r)
    /\ \E mode \in Modes, input \in OrderInputs(ConcLines, ConcTagIds), fault \in Faults :
          Issue(r, create_order_flush(store, begin("create_order", mode, input), fault), fault)

\* the tag ids of the payload for which a tag row is committed right now
TagExists(tag_id) == \E g \in store.rows["tag"] : g.id = tag_id

\* the lookup's result n, with the ids remembered that had a tag row then
Looked(n, ids) ==
    [n EXCEPT !.s.found = IF n.s.pc = "tags" THEN @ \cup ids ELSE @]

PostOrderTag(r) ==
    /\ req[r].kind = "create_order"
    /\ req[r].pc = "tags"
    /\ req[r].i <= Len(req[r].input.tag_ids)
    /\ \E fault \in Faults :
          Advance(r, Looked(create_order_tag_lookup(store, req[r], fault),
                            IF TagExists(req[r].input.tag_ids[req[r].i])
                            THEN {req[r].input.tag_ids[req[r].i]} ELSE {}),
                  fault)

PostOrderCommit(r) ==
    /\ req[r].kind = "create_order"
    /\ req[r].pc = "tags"
    /\ req[r].i > Len(req[r].input.tag_ids)
    /\ \E fault \in CommitFaults :
          Advance(r, create_order_commit(store, req[r], fault), fault)

GetOrder(r) ==
    /\ CanIssue(r)
    /\ \E mode \in Modes, fault \in Faults :
          Issue(r, get_orders_select(store, begin("get_orders", mode, NoInput), fault), fault)

GetOrderLazyLines(r) ==
    /\ req[r].pc = "lazy_lines"
    /\ \E fault \in Faults : Advance(r, get_orders_lazy_lines(store, req[r], fault), fault)

GetOrderLazyTags(r) ==
    /\ req[r].pc = "lazy_tags"
    /\ \E fault \in Faults : Advance(r, get_orders_lazy_tags(store, req[r], fault), fault)

GetOrderSelectinLines(r) ==
    /\ req[r].pc = "selectin_lines"
    /\ \E fault \in Faults :
          Advance(r, get_orders_selectin_lines(store, req[r], fault), fault)

GetOrderSelectinTags(r) ==
    /\ req[r].pc = "selectin_tags"
    /\ \E fault \in Faults :
          Advance(r, get_orders_selectin_tags(store, req[r], fault), fault)

\* the response is out (returned or raised): the dependency's with-block ends
Release(r) ==
    /\ req[r].pc \in {"returned", "raised"}
    /\ Advance(r, close(store, req[r]), "ok")

Next ==
    \E r \in Reqs :
        \/ PostContact(r)
        \/ GetContact(r)
        \/ PostProduct(r)
        \/ GetProduct(r)
        \/ PostTag(r)
        \/ GetTag(r)
        \/ PostOrder(r)
        \/ PostOrderTag(r)
        \/ PostOrderCommit(r)
        \/ GetOrder(r)
        \/ GetOrderLazyLines(r)
        \/ GetOrderLazyTags(r)
        \/ GetOrderSelectinLines(r)
        \/ GetOrderSelectinTags(r)
        \/ Release(r)

Spec == Init /\ [][Next]_vars

\* ------------------------------------------------------------------ the two route sets side by side
\* the same request is served by the /sync handler on one store and by the
\* /async handler on the other, one request after the other
EqServed(kind, input, a, b) ==
    /\ eqS' = a.store
    /\ eqA' = b.store
    /\ eqLast' = [kind |-> kind, input |-> input, sync |-> a.s.resp, async |-> b.s.resp]
    /\ eqN' = eqN + 1

EqServe ==
    /\ eqN < MaxEqReq
    /\ \E kind \in Kinds :
          \E input \in InputsOf(kind, MaxLines, MaxTagIds) :
             EqServed(kind, input, Serve(eqS, kind, "sync", input),
                      Serve(eqA, kind, "async", input))
    /\ UNCHANGED <<store, req, faults>>

EqNext == EqServe

SpecEq == Init /\ [][EqNext]_vars

\* ------------------------------------------------------------------ properties
Range(f) == {f[i] : i \in DOMAIN f}

Ids(rows) == {x.id : x \in rows}

\* the rows of an order in a store's committed tables
LinesIn(st, oid) == {l \in st.rows["order_line"] : l.order_id = oid}
LinksIn(st, oid) == {k \in st.rows["order_tag_rel"] : k.order_id = oid}

OrderReqs == {r \in Reqs : req[r].kind = "create_order"}
ListOrderReqs == {r \in Reqs : req[r].kind = "get_orders"}

\* the id the store gave the order of request r (NULL before the flush)
oid(r) == req[r].obj.row.id

\* the request failed at a statement after the flush of its order row, up to
\* and including the commit
FailedBeforeCommitted(r) ==
    /\ req[r].kind = "create_order"
    /\ req[r].pc \in {"raised", "finished"}
    /\ req[r].resp.status = 500
    /\ req[r].failedAt \in {"autoflush", "get", "commit"}

\* C1: an order-create that fails after its order row was flushed (at a line
\* insert, a tag lookup, a link insert or the commit) leaves no committed
\* Order, OrderLine or OrderTagLink row of that attempt.
C1_AllOrNothing ==
    \A r \in Reqs :
        FailedBeforeCommitted(r) =>
            /\ oid(r) \notin Ids(store.rows["order"])
            /\ LinesIn(store, oid(r)) = {}
            /\ LinksIn(store, oid(r)) = {}

\* a create with a line and a tag found has failed at its commit and has
\* given its session back
C1_Witness ==
    \E r \in Reqs :
        /\ FailedBeforeCommitted(r)
        /\ req[r].pc = "finished"
        /\ req[r].failedAt = "commit"
        /\ req[r].input.order_lines # <<>>
        /\ req[r].found # {}
        /\ oid(r) # NULL

\* the two sides of SpecEq: the store and the response to the last request
Sides ==
    {[st |-> eqS, resp |-> eqLast.sync], [st |-> eqA, resp |-> eqLast.async]}

CarriesLines(body, input) ==
    /\ "order_lines" \in DOMAIN body
    /\ Len(body.order_lines) = Len(input.order_lines)
    /\ \A i \in DOMAIN input.order_lines :
          /\ body.order_lines[i].product_id = input.order_lines[i].product_id
          /\ body.order_lines[i].quantity = input.order_lines[i].quantity
          /\ body.order_lines[i].price = input.order_lines[i].price

\* C3: what create_order returns carries an order_lines sequence as long as
\* the payload's, its i-th element with the i-th line's product_id, quantity
\* and price.
C3_ReturnedLines ==
    eqLast.kind = "create_order" =>
        \A x \in Sides : x.resp.status = 200 => CarriesLines(x.resp.body, eqLast.input)

RECURSIVE SumRows(_)
SumRows(rows) ==
    IF rows = {} THEN 0
    ELSE LET l == CHOOSE x \in rows : TRUE
         IN  l.price * l.quantity + SumRows(rows \ {l})

Abs(x) == IF x < 0 THEN -x ELSE x

\* t is x rounded to two decimals (both in thousandths): a whole number of
\* hundredths nearest to x, the even one when x lies halfway
IsRounded(t, x) ==
    /\ t % 10 = 0
    /\ Abs(t - x) <= 5
    /\ Abs(t - x) = 5 => (t \div 10) % 2 = 0

ExampleLines ==
    ([product_id |-> 1, quantity |-> 2, price |-> 10000] :> 1)
        @@ ([product_id |-> 2, quantity |-> 1, price |-> 5500] :> 1)

\* C4: in an order list, each order's amount_total is round(sum of price *
\* quantity over the lines stored for that order, 2): 0 for an order with no
\* lines, 25.5 for the lines 2 x 10.0 and 1 x 5.5.
C4_AmountTotal ==
    eqLast.kind = "get_orders" =>
        \A x \in Sides :
            x.resp.status = 200 =>
                \A o \in x.resp.body :
                    /\ IsRounded(o.amount_total, SumRows(LinesIn(x.st, o.id)))
                    /\ LinesIn(x.st, o.id) = {} => o.amount_total = 0
                    /\ o.order_lines = ExampleLines => o.amount_total = 25500

\* the list shows an order created with the example lines, reading 25.5
C4_Witness ==
    /\ eqLast.kind = "get_orders"
    /\ \A x \in Sides :
          \E o \in x.resp.body :
              /\ o.order_lines = ExampleLines
              /\ o.amount_total = 25500
              /\ Cardinality(LinesIn(x.st, o.id)) = 2

\* a sequence as a collection with multiplicities
BagOfSeq(q) == [x \in Range(q) |-> Cardinality({i \in DOMAIN q : q[i] = x})]

\* the tags with the given ids, serialised, with multiplicities
TagBag(ids) ==
    LET rows == {g \in store.rows["tag"] : g.id \in ids}
    IN  [x \in {Tag(g) : g \in rows} |-> Cardinality({g \in rows : Tag(g) = x})]

\* the orders whose creation has committed: the one the run starts with and
\* those of the requests past their commit, each with its payload and the
\* tag ids its lookups found
Created ==
    {[id |-> 1, input |-> SeedOrder, found |-> {1}]}
    \cup {[id |-> oid(r), input |-> req[r].input, found |-> req[r].found] :
            r \in {q \in OrderReqs :
                     \/ req[q].resp.status = 200
                     \/ req[q].failedAt = "refresh"}}

\* o shows all of one created order: its fields, every line of the payload
\* and every tag found
Whole(o) ==
    \E c \in Created :
        /\ o.id = c.id
        /\ o.name = c.input.name
        /\ o.contact_id = c.input.contact_id
        /\ o.order_lines = BagOfSeq(c.input.order_lines)
        /\ o.tags = TagBag(c.found)

\* C5: a list response never shows part of an order: every order in it is
\* there with all its lines and all its tag links, and a list request never
\* holds a row that is not committed.
C5_NoPartialOrder ==
    \A q \in ListOrderReqs :
        /\ req[q].sel \subseteq store.rows["order"]
        /\ req[q].lines \subseteq store.rows["order_line"]
        /\ {p[2] : p \in req[q].tags} \subseteq store.rows["tag"]
        /\ req[q].resp.status = 200 => \A o \in req[q].resp.body : Whole(o)

\* a list was answered, without the order, while an earlier create had its
\* order row and line flushed and not yet committed
C5_Witness ==
    \E r \in OrderReqs, q \in ListOrderReqs :
        /\ r < q
        /\ req[r].pc = "tags"
        /\ oid(r) # NULL
        /\ req[r].input.order_lines # <<>>
        /\ req[r].i > 1
        /\ req[q].resp.status = 200
        /\ req[q].resp.body # {}
        /\ oid(r) \notin Ids(req[q].resp.body)

\* the two responses agree: both succeed with the same body, or both fail
SameResponse(a, b) ==
    /\ a.status = b.status
    /\ a.status = 200 => a.body = b.body

\* C6: a sequence of requests served by the /sync handlers and the same
\* sequence served by the /async handlers from the same store get the same
\* response to every request and end in the same store contents.
C6_SyncAsyncEquivalent ==
    /\ SameResponse(eqLast.sync, eqLast.async)
    /\ eqS = eqA

\* both route sets have listed two orders, one of them with a line and a tag
C6_Witness ==
    /\ eqLast.kind = "get_orders"
    /\ eqLast.sync.status = 200
    /\ eqLast.async.status = 200
    /\ Cardinality(eqLast.sync.body) = 2
    /\ \E o \in eqLast.async.body :
          /\ o.id # 1
          /\ DOMAIN o.order_lines # {}
          /\ DOMAIN o.tags # {}

\* C7: every committed Order's contact_id is the id of a Contact row.
C7_ContactForeignKey ==
    \A o \in store.rows["order"] : o.contact_id \in Ids(store.rows["contact"])

\* C8: every committed OrderLine belongs to a committed Order, and every
\* committed OrderTagLink joins a committed Order and a committed Tag.
C8_ForeignKeys ==
    /\ \A l \in store.rows["order_line"] : l.order_id \in Ids(store.rows["order"])
    /\ \A k \in store.rows["order_tag_rel"] :
          /\ k.order_id \in Ids(store.rows["order"])
          /\ k.tag_id \in Ids(store.rows["tag"])

\* a request's order is committed with a line and a tag link
C8_Witness ==
    \E r \in OrderReqs :
        /\ req[r].resp.status = 200
        /\ LinesIn(store, oid(r)) # {}
        /\ LinksIn(store, oid(r)) # {}

TableOf(kind) ==
    CASE kind \in {"create_contact", "get_contacts"} -> "contact"
      [] kind \in {"create_product", "get_products"} -> "product"
      [] kind \in {"create_tag", "get_tags"}         -> "tag"

CreateReqs == {r \in Reqs : req[r].kind \in {"create_contact", "create_product", "create_tag"}}
ListReqs == {r \in Reqs : req[r].kind \in {"get_contacts", "get_products", "get_tags"}}

\* C9: a successful create of a contact, product or tag returns the payload's
\* fields with a generated id that is not null and that no other row of the
\* table has; the record stays in the table as returned, and every list of
\* that table issued after the create has answered contains it.
C9_CreateThenList ==
    /\ \A r \in CreateReqs :
          req[r].resp.status = 200 =>
              /\ req[r].resp.body = [id |-> req[r].resp.body.id] @@ req[r].input
              /\ req[r].resp.body.id # NULL
              /\ req[r].resp.body \in store.rows[TableOf(req[r].kind)]
              /\ \A q \in ListReqs :
                    (/\ r \in req[q].after
                     /\ TableOf(req[q].kind) = TableOf(req[r].kind)
                     /\ req[q].resp.status = 200)
                        => req[r].resp.body \in req[q].resp.body
    /\ \A t \in Tables : \A a, b \in store.rows[t] : a.id = b.id => a = b

\* a tag was created, and a list of tags issued afterwards shows it
C9_Witness ==
    \E r \in CreateReqs, q \in ListReqs :
        /\ req[r].kind = "create_tag"
        /\ req[q].kind = "get_tags"
        /\ r \in req[q].after
        /\ req[r].resp.status = 200
        /\ req[q].resp.status = 200
        /\ req[r].resp.body \in req[q].resp.body

\* C10: a request holds exactly one session from its first statement until
\* it ends and none afterwards, whether it returned or raised: no finished
\* request has a session open or a transaction pending.
C10_SessionReleased ==
    \A r \in Reqs :
        /\ req[r].nsess = IF req[r].pc = "idle" THEN 0 ELSE 1
        /\ req[r].open <=> req[r].pc \notin {"idle", "finished"}
        /\ req[r].pc = "finished" => req[r].tx = EmptyRows /\ req[r].new = <<>>

\* all requests have finished, one of them with an error after its order
\* row was flushed
C10_Witness ==
    /\ \A r \in Reqs : req[r].pc = "finished" /\ ~req[r].open
    /\ \E r \in Reqs : req[r].resp.status = 500 /\ oid(r) # NULL
    /\ \E r \in Reqs : req[r].resp.status = 200
====
